---- MODULE Spec2Model ----
(***************************************************************************)
(* Model of linux-traffic-checker: the monthly network usage accounting    *)
(* of src/unnamed/part_000 (scheduled process, big.Int counters, counter   *)
(* reset detection) and of src/main.go (one-shot run, int64 counters).     *)
(*                                                                         *)
(* Calendar months are numbered 0, 1, 2, ...; the month key "2006-01" of   *)
(* the code is the month number (the format is injective on months).  The  *)
(* clock counts half months, so that the month boundary of the scheduler's *)
(* timezone and the boundary of the local timezone can fall on different   *)
(* instants.                                                               *)
(***************************************************************************)
EXTENDS Integers, Sequences, FiniteSets, TLC

\* Bounds of the model.
MaxClock == 4
MaxCounter == 2
SentCap == 2

VARIABLES
    clock,      \* wall-clock time, in half months
    zoneShift,  \* config.TimeZone relative to the local zone: 0 behind, 1 same, 2 ahead
    devRX,      \* cumulative received bytes of the interface in /proc/net/dev
    devTX,      \* cumulative transmitted bytes of the interface in /proc/net/dev
    statsFile,  \* the file config.StatsFile
    proc,       \* the scheduled process of part_000: "stopped", "running", "exited"
    variant,    \* the program installed: "main.go" or "part_000"
    last,       \* observation of the invocation that has just ended
    sent,       \* notifications posted since the local month began
    arg,        \* the operands of a computation looked at on its own
    out         \* its results

vars == <<clock, zoneShift, devRX, devTX, statsFile, proc, variant, last, sent,
          arg, out>>

Min(a, b) == IF a < b THEN a ELSE b

----------------------------------------------------------------------------
\* Time.

\* The calendar month of the local zone at time t.
localMonth(t) == (t + 1) \div 2

\* The calendar month of the scheduler's zone (config.TimeZone) at time t.
schedMonth(t, shift) == (t + shift) \div 2

\* monthKey := time.Now().Format("2006-01"): time.Now() is in the local zone.
monthKey == localMonth(clock)

----------------------------------------------------------------------------
\* The state file.

\* Month of the zero value Stats{}: the empty string, equal to no month key.
NoMonth == -1

\* Stats{}
EmptyStats == [month |-> NoMonth, rx |-> 0, tx |-> 0]

AbsentFile == [kind |-> "absent", month |-> NoMonth, rx |-> 0, tx |-> 0]

\* A file that exists and does not hold the JSON of a Stats (a write that
\* failed after the file was truncated).
CorruptFile == [kind |-> "corrupt", month |-> NoMonth, rx |-> 0, tx |-> 0]

FileOf(stats) == [kind |-> "stats", month |-> stats.month, rx |-> stats.rx, tx |-> stats.tx]

StatsOf(f) == [month |-> f.month, rx |-> f.rx, tx |-> f.tx]

\* Outcomes of os.WriteFile: written; not opened (the file is left as it
\* was); opened and truncated, then failed.
WriteOutcomes == {"ok", "denied", "partial"}

\* What the environment answers to the I/O steps of one invocation: which
\* of the steps readConfig, loadStats' read, readNetworkBytes and the post
\* fails (the run exits at the first of the three reads that fails, so the
\* answers to the steps after it are not enumerated), and the outcome of the
\* first and of the second call of saveStats.
Answers(fail, w1, w2) ==
    [cfg |-> fail # "config", load |-> fail # "load", net |-> fail # "net",
     send |-> fail # "send", w1 |-> w1, w2 |-> w2]

IO ==
    {Answers(fail, "ok", "ok") : fail \in {"config", "load", "net"}}
    \cup {Answers(fail, w1, w2) : fail \in {"none", "send"},
                                  w1 \in WriteOutcomes, w2 \in WriteOutcomes}

\* readConfig: fails when config.json is unreadable or malformed.
readConfig(ok) == ok

\* Mutant: a missing file is not reported as the first run.
loadStatsNotFirst(f, ok) ==
    IF f.kind = "absent"
    THEN [stats |-> EmptyStats, isFirstRun |-> FALSE, err |-> FALSE]
    ELSE IF ~ok \/ f.kind = "corrupt"
    THEN [stats |-> EmptyStats, isFirstRun |-> FALSE, err |-> TRUE]
    ELSE [stats |-> StatsOf(f), isFirstRun |-> FALSE, err |-> FALSE]

\* loadStats: (stats, isFirstRun, err).
loadStats(f, ok) ==
    IF f.kind = "absent"
    THEN [stats |-> EmptyStats, isFirstRun |-> TRUE, err |-> FALSE]
    ELSE IF ~ok \/ f.kind = "corrupt"
    THEN [stats |-> EmptyStats, isFirstRun |-> FALSE, err |-> TRUE]
    ELSE [stats |-> StatsOf(f), isFirstRun |-> FALSE, err |-> FALSE]

\* saveStats: the file after the call and whether an error is returned.
saveStats(f, stats, w) ==
    CASE w = "ok" -> [file |-> FileOf(stats), err |-> FALSE]
      [] w = "denied" -> [file |-> f, err |-> TRUE]
      [] w = "partial" -> [file |-> CorruptFile, err |-> TRUE]

----------------------------------------------------------------------------
\* Arithmetic and formatting.

\* Mutant: the operands of the subtraction are exchanged.
SubSwapped(a, b) == b - a

\* new(big.Int).Sub and new(big.Int).Add: exact.
Sub(a, b) == a - b

Add(a, b) == a + b

Units == <<"B", "KB", "MB", "GB", "TB">>

\* int64 subtraction and addition of main.go.  The counters of the model lie
\* in 0..MaxCounter, where these do not leave the int64 range.
Int64Sub(a, b) == a - b

Int64Add(a, b) == a + b

\* n / d rounded to the nearest integer, ties to even (fmt's %.2f on the
\* exact binary value).
RoundDiv(n, d) ==
    LET q == n \div d
        r == n % d
    IN  IF 2 * r > d \/ (2 * r = d /\ q % 2 = 1) THEN q + 1 ELSE q

RECURSIVE formatLoop(_, _, _)
formatLoop(n, k, d) ==
    IF k > Len(Units)
    THEN [unit |-> "PB", hundredths |-> RoundDiv(100 * n, d)]
    ELSE IF n < 1024 * d
    THEN [unit |-> Units[k], hundredths |-> RoundDiv(100 * n, d)]
    ELSE formatLoop(n, k + 1, 1024 * d)

\* formatBytes: the unit and the value in hundredths of the unit.
formatBytes(n) == formatLoop(n, 1, 1)

----------------------------------------------------------------------------
\* Numbers beyond the range of the model checker's integers: sequences of
\* digits to the base 1024, the least significant digit first.

\* k := big.NewFloat(1024.0); size /= 1024.0
Radix == 1024

\* The digits of the natural number n.
RECURSIVE Digits(_)
Digits(n) == IF n < Radix THEN <<n>> ELSE <<n % Radix>> \o Digits(n \div Radix)

\* The number that digits ds stand for (used where it is small).
RECURSIVE Value(_)
Value(ds) == IF Len(ds) = 0 THEN 0 ELSE ds[1] + Radix * Value(Tail(ds))

\* ds without its leading zero digits.
RECURSIVE Trim(_)
Trim(ds) ==
    IF Len(ds) > 1 /\ ds[Len(ds)] = 0 THEN Trim(SubSeq(ds, 1, Len(ds) - 1)) ELSE ds

\* ds + c, for a carry c into the lowest digit.
RECURSIVE AddCarry(_, _)
AddCarry(ds, c) ==
    IF c = 0 THEN ds
    ELSE IF Len(ds) = 0 THEN <<c>>
    ELSE <<(ds[1] + c) % Radix>> \o AddCarry(Tail(ds), (ds[1] + c) \div Radix)

\* ds * m + carry, for a small factor m.
RECURSIVE MulSmall(_, _, _)
MulSmall(ds, m, carry) ==
    IF Len(ds) = 0
    THEN (IF carry = 0 THEN <<>> ELSE Digits(carry))
    ELSE <<(ds[1] * m + carry) % Radix>>
         \o MulSmall(Tail(ds), m, (ds[1] * m + carry) \div Radix)

RECURSIVE BitLenDigit(_)
BitLenDigit(d) == IF d = 0 THEN 0 ELSE 1 + BitLenDigit(d \div 2)

\* The number of bits of ds (a digit holds 10 bits).
BitLen(ds) == 10 * (Len(Trim(ds)) - 1) + BitLenDigit(Trim(ds)[Len(Trim(ds))])

----------------------------------------------------------------------------
\* int64, as 7 digits in two's complement: the top digit holds bits 60..63.

Zero64 == <<0, 0, 0, 0, 0, 0, 0>>

WordLen == Len(Zero64)

\* The modulus of the top digit: 2^(64 - 60).
TopRadix == 16

\* a + b + carry on words whose top digit is taken modulo top.
RECURSIVE AddFixed(_, _, _, _)
AddFixed(a, b, carry, top) ==
    IF Len(a) = 1
    THEN <<(a[1] + b[1] + carry) % top>>
    ELSE <<(a[1] + b[1] + carry) % Radix>>
         \o AddFixed(Tail(a), Tail(b), (a[1] + b[1] + carry) \div Radix, top)

\* The bitwise complement of a word.
RECURSIVE Complement(_, _)
Complement(a, top) ==
    IF Len(a) = 1 THEN <<top - 1 - a[1]>>
    ELSE <<Radix - 1 - a[1]>> \o Complement(Tail(a), top)

\* a + b and a - b in int64: the result modulo 2^64.
Add64(a, b) == AddFixed(a, b, 0, TopRadix)

Sub64(a, b) == AddFixed(a, Complement(b, TopRadix), 1, TopRadix)

IsNeg64(a) == a[WordLen] >= TopRadix \div 2

\* Exact integers for the values that int64 operands and their sums and
\* differences take: two's complement in 8 digits (80 bits), which no sum or
\* difference of two 65-bit values leaves.
Extend(a) ==
    IF IsNeg64(a)
    THEN SubSeq(a, 1, WordLen - 1) \o <<a[WordLen] + (Radix - TopRadix), Radix - 1>>
    ELSE a \o <<0>>

ExactAdd(x, y) == AddFixed(x, y, 0, Radix)

ExactSub(x, y) == AddFixed(x, Complement(y, Radix), 1, Radix)

\* new(big.Int).Sub and new(big.Int).Add on int64 operands given as words.
BigSub(a, b) == ExactSub(Extend(a), Extend(b))

BigAdd(x, y) == ExactAdd(x, y)

----------------------------------------------------------------------------
\* formatBytes on numbers of any size.

\* float64 of the number ds (and Float64() of a big.Float): ds rounded to 53
\* significant bits, ties to even.  The operands have at most 64 bits, so the
\* bits dropped lie in the two lowest digits.
\* low without its remainder modulo q, or the next multiple of q.
RoundLow(low, q) ==
    IF \/ 2 * (low % q) > q
       \/ 2 * (low % q) = q /\ (low \div q) % 2 = 1
    THEN low - (low % q) + q ELSE low - (low % q)

\* t with its two lowest digits replaced by the number v < 2 * 1024^2.
WithLow(t, v) ==
    Trim(<<v % Radix, (v \div Radix) % Radix>>
         \o AddCarry(SubSeq(t, 3, Len(t)), v \div (Radix * Radix)))

RoundBits(t, bits) ==
    IF bits <= 53 THEN t
    ELSE WithLow(t, RoundLow(t[1] + Radix * t[2], 2 ^ (bits - 53)))

Float64(ds) == RoundBits(Trim(ds), BitLen(ds))

\* fmt.Sprintf("%.2f", val) for val = ds / 1024^k: val in hundredths, rounded
\* to the nearest, ties to even.
\* int + top / 1024 + (something more, if rest) rounded to an integer.
RoundHalfEven(int, top, rest) ==
    IF \/ top > Radix \div 2
       \/ top = Radix \div 2 /\ rest
       \/ top = Radix \div 2 /\ ~rest /\ int % 2 = 1
    THEN int + 1 ELSE int

\* p / 1024^k rounded to an integer.
RoundShift(p, k) ==
    RoundHalfEven(IF Len(p) > k THEN Value(SubSeq(p, k + 1, Len(p))) ELSE 0,
                  IF k >= 1 /\ Len(p) >= k THEN p[k] ELSE 0,
                  \E i \in 1..(k - 1) : i <= Len(p) /\ p[i] # 0)

Hundredths(ds, k) == RoundShift(MulSmall(ds, 100, 0), k)

\* size < 1024.0, fSize.Cmp(k) == -1, on the integer part ip of the size
\* (the fraction does not decide it).
Below1024(ip) == Len(ip) = 1

\* size /= 1024.0, fSize.Quo(fSize, k), on the integer part: its lowest
\* digit moves behind the point.
Quo1024(ip) == IF Len(ip) = 1 THEN <<0>> ELSE Tail(ip)

\* Mutant: the ladder goes on to a unit after PB.
RECURSIVE formatDigitsUncapped(_, _, _)
formatDigitsUncapped(ds, ip, k) ==
    IF k > Len(Units) + 1
    THEN [unit |-> "EB", hundredths |-> Hundredths(Float64(ds), k - 1)]
    ELSE IF Below1024(ip)
    THEN [unit |-> (Units \o <<"PB">>)[k], hundredths |-> Hundredths(Float64(ds), k - 1)]
    ELSE formatDigitsUncapped(ds, Quo1024(ip), k + 1)

\* for _, unit := range units { ... }; return "%.2f PB": ds is the number,
\* ip the integer part of the size after k - 1 divisions.
RECURSIVE formatDigits(_, _, _)
formatDigits(ds, ip, k) ==
    IF k > Len(Units)
    THEN [unit |-> "PB", hundredths |-> Hundredths(Float64(ds), k - 1)]
    ELSE IF Below1024(ip)
    THEN [unit |-> Units[k], hundredths |-> Hundredths(Float64(ds), k - 1)]
    ELSE formatDigits(ds, Quo1024(ip), k + 1)

\* formatBytes of part_000 on the digits of a big.Int >= 0: the loop runs on
\* the exact big.Float and the value is rounded to float64 when printed.
formatBytesBig(ds) == formatDigits(Trim(ds), Trim(ds), 1)

\* formatBytes of main.go on the digits of an int64 >= 0: the number is
\* rounded to float64 first and the loop runs on the rounded value.
formatBytesFloat(ds) == formatDigits(Float64(ds), Float64(ds), 1)

NoFields == [rx |-> formatBytes(0), tx |-> formatBytes(0), total |-> formatBytes(0)]

----------------------------------------------------------------------------
\* One run of the accounting.

\* The record of one run: the file it leaves, whether it read its inputs
\* (decided), the branch it took (path), the error it exited on (err, "none"
\* when it returned), the notification (notify: "none", "delivered", "failed"),
\* the values computed, the fields posted and the calls of saveStats.
Res0(f) ==
    [file |-> f, decided |-> FALSE, isFirstRun |-> FALSE, rollover |-> FALSE,
     path |-> "None", err |-> "none", notify |-> "none",
     usedRX |-> 0, usedTX |-> 0, total |-> 0, fields |-> NoFields,
     writes |-> 0, writeFailed |-> FALSE]

\* Mutant: the stored month is never taken to be the current one.
MonthChangedAlways(stats, mk) == TRUE

\* if stats.Month != monthKey
MonthChanged(stats, mk) == stats.month # mk

\* Mutant: the new record keeps the counters of the old one as its baseline.
NewStatsStale(old, mk, curRX, curTX) == [month |-> mk, rx |-> old.rx, tx |-> old.tx]

\* Mutant: the new record takes RX from the TX counter and TX from the RX counter.
NewStatsSwapped(old, mk, curRX, curTX) == [month |-> mk, rx |-> curTX, tx |-> curRX]

\* Mutant: the new record keeps the month of the old one.
NewStatsOldMonth(old, mk, curRX, curTX) == [month |-> old.month, rx |-> curRX, tx |-> curTX]

\* stats = &Stats{Month: monthKey, RX: currentRX, TX: currentTX}
NewStats(old, mk, curRX, curTX) == [month |-> mk, rx |-> curRX, tx |-> curTX]

\* Mutant: a counter that did not move counts as a reset.
CounterResetDetectedOnZero(usedRX, usedTX) == usedRX <= 0 \/ usedTX <= 0

\* if usedRX.Sign() < 0 || usedTX.Sign() < 0
CounterResetDetected(usedRX, usedTX) == usedRX < 0 \/ usedTX < 0

\* sendToDiscord: the three formatted fields are posted; err is returned when
\* the post fails or the answer is not 204.
sendToDiscord(rxStr, txStr, totalStr, ok) ==
    [fields |-> [rx |-> rxStr, tx |-> txStr, total |-> totalStr],
     notify |-> IF ok THEN "delivered" ELSE "failed",
     err |-> ~ok]

\* The part of the run from the subtraction on, in part_000: the reset
\* branch or the notification.
Account(r1, stats, mk, curRX, curTX, io) ==
    LET usedRX == Sub(curRX, stats.rx)
        usedTX == Sub(curTX, stats.tx)
    IN  IF CounterResetDetected(usedRX, usedTX)
        THEN LET stats2 == [stats EXCEPT !.rx = curRX, !.tx = curTX, !.month = mk]
                 \* the error of this saveStats is not looked at
                 sv2 == saveStats(r1.file, stats2, io.w2)
             IN  [r1 EXCEPT !.path = "ResetDetected", !.file = sv2.file,
                            !.usedRX = usedRX, !.usedTX = usedTX,
                            !.writes = @ + 1, !.writeFailed = @ \/ sv2.err]
        ELSE LET total == Add(usedRX, usedTX)
                 post == sendToDiscord(formatBytes(usedRX), formatBytes(usedTX),
                                       formatBytes(total), io.send)
             IN  [r1 EXCEPT !.path = "Report",
                            !.usedRX = usedRX, !.usedTX = usedTX, !.total = total,
                            !.fields = post.fields, !.notify = post.notify,
                            !.err = IF post.err THEN "send" ELSE "none"]

\* SendMonthlyNetStats of part_000, from the file f, the month key mk and the
\* counters (curRX, curTX) of /proc/net/dev, with the I/O answers io.
SendMonthlyNetStatsBody(f, mk, curRX, curTX, io) ==
    IF ~readConfig(io.cfg) THEN [Res0(f) EXCEPT !.err = "config"]
    ELSE LET ld == loadStats(f, io.load) IN
    IF ld.err THEN [Res0(f) EXCEPT !.err = "load"]
    ELSE IF ~io.net THEN [Res0(f) EXCEPT !.err = "net"]
    ELSE LET changed == MonthChanged(ld.stats, mk)
             stats1 == IF changed THEN NewStats(ld.stats, mk, curRX, curTX) ELSE ld.stats
             sv1 == IF changed THEN saveStats(f, stats1, io.w1)
                    ELSE [file |-> f, err |-> FALSE]
             r1 == [Res0(sv1.file) EXCEPT !.decided = TRUE,
                                          !.isFirstRun = ld.isFirstRun,
                                          !.rollover = changed,
                                          !.writes = IF changed THEN 1 ELSE 0,
                                          !.writeFailed = sv1.err]
         IN  IF sv1.err THEN [r1 EXCEPT !.err = "save"]
             ELSE IF ld.isFirstRun THEN [r1 EXCEPT !.path = "Skip"]
             ELSE Account(r1, stats1, mk, curRX, curTX, io)

\* main of src/main.go: the same run without the reset branch, in int64.
mainBody(f, mk, curRX, curTX, io) ==
    IF ~readConfig(io.cfg) THEN [Res0(f) EXCEPT !.err = "config"]
    ELSE LET ld == loadStats(f, io.load) IN
    IF ld.err THEN [Res0(f) EXCEPT !.err = "load"]
    ELSE IF ~io.net THEN [Res0(f) EXCEPT !.err = "net"]
    ELSE LET changed == MonthChanged(ld.stats, mk)
             stats1 == IF changed THEN NewStats(ld.stats, mk, curRX, curTX) ELSE ld.stats
             sv1 == IF changed THEN saveStats(f, stats1, io.w1)
                    ELSE [file |-> f, err |-> FALSE]
             r1 == [Res0(sv1.file) EXCEPT !.decided = TRUE,
                                          !.isFirstRun = ld.isFirstRun,
                                          !.rollover = changed,
                                          !.writes = IF changed THEN 1 ELSE 0,
                                          !.writeFailed = sv1.err]
         IN  IF sv1.err THEN [r1 EXCEPT !.err = "save"]
             ELSE IF ld.isFirstRun THEN [r1 EXCEPT !.path = "Skip"]
             ELSE LET usedRX == Int64Sub(curRX, stats1.rx)
                      usedTX == Int64Sub(curTX, stats1.tx)
                      total == Int64Add(usedRX, usedTX)
                      post == sendToDiscord(formatBytes(usedRX), formatBytes(usedTX),
                                            formatBytes(total), io.send)
                  IN  [r1 EXCEPT !.path = "Report",
                                 !.usedRX = usedRX, !.usedTX = usedTX, !.total = total,
                                 !.fields = post.fields, !.notify = post.notify,
                                 !.err = IF post.err THEN "send" ELSE "none"]

----------------------------------------------------------------------------
\* Observations.

\* No computation is looked at on its own.
NoArg == <<>>

NoOut == [kind |-> "none"]

\* What is recorded of an invocation: the function, who called it, the file
\* and the inputs it started from and the record of the run.
Obs(fn, via, f, mk, curRX, curTX, r) ==
    [fn |-> fn, via |-> via, prior |-> f, monthKey |-> mk, rx |-> curRX, tx |-> curTX,
     res |-> r]

Idle == Obs("none", "none", AbsentFile, 0, 0, 0, Res0(AbsentFile))

NoneSent == [all |-> 0, atRollover |-> 0]

\* The count of the notifications of the current month after the run r: all
\* those delivered, and those posted by a run that found the month changed.
Count(s, r) ==
    [all |-> IF r.notify = "delivered" THEN Min(s.all + 1, SentCap) ELSE s.all,
     atRollover |-> IF r.notify # "none" /\ r.rollover
                    THEN Min(s.atRollover + 1, SentCap) ELSE s.atRollover]

----------------------------------------------------------------------------
\* The environment.

\* Time passes by half a month.  When the month of the scheduler's zone
\* changes while the process runs, the step is CronJob instead.
Tick ==
    /\ clock < MaxClock
    /\ ~(proc = "running" /\ schedMonth(clock + 1, zoneShift) # schedMonth(clock, zoneShift))
    /\ clock' = clock + 1
    /\ sent' = IF localMonth(clock + 1) # localMonth(clock) THEN NoneSent ELSE sent
    /\ last' = Idle
    /\ UNCHANGED <<zoneShift, devRX, devTX, statsFile, proc, variant, arg, out>>

\* The interface receives and transmits: the kernel's counters grow.
Traffic ==
    /\ \E nrx \in devRX..MaxCounter, ntx \in devTX..MaxCounter :
          /\ <<nrx, ntx>> # <<devRX, devTX>>
          /\ devRX' = nrx
          /\ devTX' = ntx
    /\ last' = Idle
    /\ UNCHANGED <<clock, zoneShift, statsFile, proc, variant, sent, arg, out>>

\* The interface is reset while the host stays up: its counters restart at 0.
CounterReset ==
    /\ <<devRX, devTX>> # <<0, 0>>
    /\ devRX' = 0
    /\ devTX' = 0
    /\ last' = Idle
    /\ UNCHANGED <<clock, zoneShift, statsFile, proc, variant, sent, arg, out>>

\* The host reboots: the counters restart at 0 and the process is gone.
Reboot ==
    /\ proc = "running"
    /\ devRX' = 0
    /\ devTX' = 0
    /\ proc' = "stopped"
    /\ last' = Idle
    /\ UNCHANGED <<clock, zoneShift, statsFile, variant, sent, arg, out>>

----------------------------------------------------------------------------
\* The run function called at any time.

\* One invocation of SendMonthlyNetStats (part_000).
SendMonthlyNetStats ==
    /\ variant = "part_000"
    /\ \E io \in IO :
          \E r \in {SendMonthlyNetStatsBody(statsFile, monthKey, devRX, devTX, io)} :
              /\ statsFile' = r.file
              /\ last' = Obs("SendMonthlyNetStats", "direct", statsFile, monthKey,
                             devRX, devTX, r)
              /\ sent' = Count(sent, r)
    /\ UNCHANGED <<clock, zoneShift, devRX, devTX, proc, variant, arg, out>>

\* One execution of the program of src/main.go.
main_go ==
    /\ variant = "main.go"
    /\ \E io \in IO :
          \E r \in {mainBody(statsFile, monthKey, devRX, devTX, io)} :
              /\ statsFile' = r.file
              /\ last' = Obs("main", "direct", statsFile, monthKey, devRX, devTX, r)
              /\ sent' = Count(sent, r)
    /\ UNCHANGED <<clock, zoneShift, devRX, devTX, proc, variant, arg, out>>

Init ==
    /\ clock = 0
    /\ zoneShift = 1
    /\ devRX \in 0..MaxCounter
    /\ devTX \in 0..MaxCounter
    /\ statsFile = AbsentFile
    /\ proc = "stopped"
    /\ variant \in {"main.go", "part_000"}
    /\ last = Idle
    /\ sent = NoneSent
    /\ arg = NoArg
    /\ out = NoOut

Next ==
    \/ Tick
    \/ Traffic
    \/ CounterReset
    \/ SendMonthlyNetStats
    \/ main_go

Spec == Init /\ [][Next]_vars

----------------------------------------------------------------------------
\* The scheduled process of part_000.

\* Mutant: the start-up call is made whether or not the state file exists.
StatsFileMissingAlways(f) == TRUE

\* if _, err := os.Stat(config.StatsFile); os.IsNotExist(err)
StatsFileMissing(f) == f.kind = "absent"

\* main of part_000, from its start to s.Start(): the configuration is read,
\* the scheduler is created in config.TimeZone, SendMonthlyNetStats is called
\* when the state file does not exist, and the monthly job is registered.
\* Every error, and every error inside SendMonthlyNetStats, is os.Exit(1).
main ==
    /\ proc # "running"
    /\ \/ /\ \E cause \in {"config", "scheduler"} :
                last' = Obs("main", "startup", statsFile, monthKey, devRX, devTX,
                            [Res0(statsFile) EXCEPT !.err = cause])
          /\ proc' = "exited"
          /\ UNCHANGED <<statsFile, sent>>
       \/ /\ StatsFileMissing(statsFile)
          /\ \E io \in IO :
                \E r \in {SendMonthlyNetStatsBody(statsFile, monthKey, devRX, devTX, io)} :
                    /\ statsFile' = r.file
                    /\ last' = Obs("SendMonthlyNetStats", "startup", statsFile, monthKey,
                                   devRX, devTX, r)
                    /\ sent' = Count(sent, r)
                    /\ proc' = IF r.err = "none" THEN "running" ELSE "exited"
       \/ /\ ~StatsFileMissing(statsFile)
          /\ proc' = "running"
          /\ last' = Obs("main", "startup", statsFile, monthKey, devRX, devTX,
                         Res0(statsFile))
          /\ UNCHANGED <<statsFile, sent>>
    /\ UNCHANGED <<clock, zoneShift, devRX, devTX, variant, arg, out>>

\* The job "0 0 1 * *": at 00:00 of day 1 in the scheduler's zone the
\* scheduler calls SendMonthlyNetStats; an error in it is os.Exit(1).
CronJob ==
    /\ proc = "running"
    /\ clock < MaxClock
    /\ schedMonth(clock + 1, zoneShift) # schedMonth(clock, zoneShift)
    /\ clock' = clock + 1
    /\ \E io \in IO, mk \in {localMonth(clock + 1)} :
          \E r \in {SendMonthlyNetStatsBody(statsFile, mk, devRX, devTX, io)} :
              /\ statsFile' = r.file
              /\ last' = Obs("SendMonthlyNetStats", "cron", statsFile, mk, devRX, devTX, r)
              /\ sent' = Count(IF mk # localMonth(clock) THEN NoneSent ELSE sent, r)
              /\ proc' = IF r.err = "none" THEN "running" ELSE "exited"
    /\ UNCHANGED <<zoneShift, devRX, devTX, variant, arg, out>>

SchedInit ==
    /\ clock = 0
    /\ zoneShift \in 0..2
    /\ devRX \in 0..MaxCounter
    /\ devTX \in 0..MaxCounter
    /\ statsFile = AbsentFile
    /\ proc = "stopped"
    /\ variant = "part_000"
    /\ last = Idle
    /\ sent = NoneSent
    /\ arg = NoArg
    /\ out = NoOut

SchedNext ==
    \/ main
    \/ CronJob
    \/ Tick
    \/ Traffic
    \/ CounterReset
    \/ Reboot

SchedSpec == SchedInit /\ [][SchedNext]_vars

----------------------------------------------------------------------------
\* formatBytes on its own, for byte counts of the whole int64 range.

DigitChoices == {0, 1, Radix \div 2, Radix - 1}

TopChoices == {0, 1, TopRadix \div 2 - 1}

\* The byte counts formatted: 0 .. 2^63 - 1 in samples.
FormatArgs ==
    {Trim(<<d1, d2, d3, d4, d5, d6, d7>>) :
        d1 \in DigitChoices, d2 \in DigitChoices, d3 \in DigitChoices,
        d4 \in DigitChoices, d5 \in DigitChoices, d6 \in DigitChoices,
        d7 \in TopChoices}

\* The rest of the state while a computation is looked at on its own.
Apart ==
    /\ clock = 0
    /\ zoneShift = 1
    /\ devRX = 0
    /\ devTX = 0
    /\ statsFile = AbsentFile
    /\ proc = "stopped"
    /\ variant = "part_000"
    /\ last = Idle
    /\ sent = NoneSent

FormatInit ==
    /\ Apart
    /\ arg \in FormatArgs
    /\ out = NoOut

\* formatBytes(arg) of both programs.
Format ==
    /\ out = NoOut
    /\ out' = [kind |-> "format",
               big |-> formatBytesBig(arg),
               float |-> formatBytesFloat(arg)]
    /\ UNCHANGED <<clock, zoneShift, devRX, devTX, statsFile, proc, variant,
                   last, sent, arg>>

FormatNext == Format

FormatSpec == FormatInit /\ [][FormatNext]_vars

----------------------------------------------------------------------------
\* The deltas and the total on their own, for counters of the whole range
\* that strconv.ParseInt(s, 10, 64) accepts of /proc/net/dev.

MaxInt64 == Complement(<<0, 0, 0, 0, 0, 0, TopRadix \div 2>>, TopRadix)

\* 0, 1, 2^62, 2^63 - 2 and 2^63 - 1.
CounterChoices ==
    {Zero64, <<1, 0, 0, 0, 0, 0, 0>>, <<0, 0, 0, 0, 0, 0, TopRadix \div 4>>,
     Sub64(MaxInt64, <<1, 0, 0, 0, 0, 0, 0>>), MaxInt64}

ArithInit ==
    /\ Apart
    /\ arg \in [baseRX : CounterChoices, baseTX : CounterChoices,
                 curRX : CounterChoices, curTX : CounterChoices]
    /\ out = NoOut

\* total := usedRX + usedTX of main.go.
mainTotal(usedRX, usedTX) ==
    [usedRX |-> usedRX, usedTX |-> usedTX, total |-> Add64(usedRX, usedTX)]

\* usedRX := currentRX - stats.RX; usedTX := currentTX - stats.TX of main.go.
mainDeltas(a) == mainTotal(Sub64(a.curRX, a.baseRX), Sub64(a.curTX, a.baseTX))

\* usedRX.Sign() < 0 || usedTX.Sign() < 0
Negative(x) == x[Len(x)] >= Radix \div 2

\* total := new(big.Int).Add(usedRX, usedTX), where no reset is detected.
partTotal(usedRX, usedTX) ==
    [usedRX |-> usedRX, usedTX |-> usedTX,
     reset |-> Negative(usedRX) \/ Negative(usedTX),
     total |-> IF Negative(usedRX) \/ Negative(usedTX)
               THEN Extend(Zero64) ELSE BigAdd(usedRX, usedTX)]

\* usedRX := new(big.Int).Sub(currentRX, stats.RX), and usedTX, of part_000.
partDeltas(a) == partTotal(BigSub(a.curRX, a.baseRX), BigSub(a.curTX, a.baseTX))

\* The deltas and the total of both programs for the operands arg.
Deltas ==
    /\ out = NoOut
    /\ out' = [kind |-> "deltas", main |-> mainDeltas(arg), part |-> partDeltas(arg)]
    /\ UNCHANGED <<clock, zoneShift, devRX, devTX, statsFile, proc, variant,
                   last, sent, arg>>

ArithNext == Deltas

ArithSpec == ArithInit /\ [][ArithNext]_vars

TypeOK ==
    /\ clock \in 0..MaxClock
    /\ zoneShift \in 0..2
    /\ devRX \in 0..MaxCounter
    /\ devTX \in 0..MaxCounter
    /\ statsFile.kind \in {"absent", "corrupt", "stats"}
    /\ proc \in {"stopped", "running", "exited"}
    /\ variant \in {"main.go", "part_000"}
    /\ last.res.path \in {"None", "Skip", "ResetDetected", "Report"}
    /\ sent.all \in 0..SentCap

----------------------------------------------------------------------------
\* The invocation that has just ended.

\* SendMonthlyNetStats (part_000) has just run.
Ran == last.fn = "SendMonthlyNetStats"

\* The state that a run re-baselining now would persist.
Rebaselined == FileOf([month |-> last.monthKey, rx |-> last.rx, tx |-> last.tx])

\* The run read its configuration, the state file and the counters, and the
\* state file existed with a month other than the current one.
CaseRollover ==
    /\ Ran /\ last.res.decided
    /\ last.prior.kind = "stats" /\ last.prior.month # last.monthKey

\* As above, with the stored month the current one and a counter below its baseline.
CaseReset ==
    /\ Ran /\ last.res.decided
    /\ last.prior.kind = "stats" /\ last.prior.month = last.monthKey
    /\ (last.rx < last.prior.rx \/ last.tx < last.prior.tx)

\* As above, with the stored month the current one and no counter below its baseline.
CaseNormal ==
    /\ Ran /\ last.res.decided
    /\ last.prior.kind = "stats" /\ last.prior.month = last.monthKey
    /\ last.prior.rx <= last.rx /\ last.prior.tx <= last.tx

----------------------------------------------------------------------------
\* Claims.

C2_ResetRebaselines ==
    CaseReset =>
        /\ last.res.notify = "none"
        /\ (last.res.err = "none" => statsFile = Rebaselined)

\* C3: every notification posted, by SendMonthlyNetStats of part_000 and by
\* main of main.go, carries usedRX >= 0, usedTX >= 0 and
\* usedTotal = usedRX + usedTX.
C3_ReportNonNegative ==
    (last.fn \in {"SendMonthlyNetStats", "main"} /\ last.res.notify # "none") =>
        /\ last.res.usedRX >= 0
        /\ last.res.usedTX >= 0
        /\ last.res.total = last.res.usedRX + last.res.usedTX

\* C4 (as stated): at most one notification of SendMonthlyNetStats is
\* delivered while the current month has one value.
C4_AtMostOncePerPeriod == variant = "part_000" => sent.all <= 1

\* C4 (amended): while the current month has one value, at most one
\* notification is posted by a run that found the month changed; the runs of
\* the same month after it are not deduplicated.
C4_AtMostOneRolloverNotification == variant = "part_000" => sent.atRollover <= 1

\* Two notifications delivered in one month, the first of them by the run
\* that found the month changed.
C4_Witness ==
    /\ variant = "part_000"
    /\ sent.atRollover = 1 /\ sent.all = 2
    /\ CaseNormal /\ last.res.notify = "delivered"

\* C5: the notification of a monthly trigger carries the growth of the
\* counters since the baseline persisted for the month reported.
C5_ReportsMonthUsage ==
    (/\ Ran /\ last.via = "cron" /\ last.res.notify # "none"
     /\ last.prior.kind = "stats"
     /\ last.prior.month \in {last.monthKey - 1, last.monthKey}
     /\ last.prior.rx <= last.rx /\ last.prior.tx <= last.tx) =>
        /\ last.res.usedRX = last.rx - last.prior.rx
        /\ last.res.usedTX = last.tx - last.prior.tx

\* C6: a run made when no state file exists sends no notification and, when
\* it returns, has taken the Skip path and persisted the current month with
\* the counters just read.
C6_FirstRunSkips ==
    (Ran /\ last.prior.kind = "absent") =>
        /\ last.res.notify = "none"
        /\ (last.res.err = "none" =>
               /\ last.res.path = "Skip"
               /\ statsFile = Rebaselined)

\* A first run with non-zero counters that returned.
C6_Witness ==
    /\ Ran /\ last.prior.kind = "absent" /\ last.res.err = "none"
    /\ last.rx > 0 /\ last.tx > 0
    /\ statsFile.kind = "stats"

\* C7: a run in the stored month with no counter below its baseline posts a
\* notification of exactly usedRX = rx - baselineRX, usedTX = tx - baselineTX
\* and usedTotal = usedRX + usedTX.
C7_NormalAccounting ==
    CaseNormal =>
        /\ last.res.path = "Report"
        /\ last.res.notify # "none"
        /\ last.res.usedRX = last.rx - last.prior.rx
        /\ last.res.usedTX = last.tx - last.prior.tx
        /\ last.res.total = (last.rx - last.prior.rx) + (last.tx - last.prior.tx)
        /\ last.res.fields = [rx |-> formatBytes(last.rx - last.prior.rx),
                              tx |-> formatBytes(last.tx - last.prior.tx),
                              total |-> formatBytes((last.rx - last.prior.rx)
                                                    + (last.tx - last.prior.tx))]

\* A report of non-zero received and transmitted usage, delivered.
C7_Witness ==
    /\ CaseNormal
    /\ last.res.usedRX > 0 /\ last.res.usedTX > 0
    /\ last.res.usedRX # last.res.usedTX
    /\ last.res.notify = "delivered"

\* C8: a run on the normal-accounting path leaves the persisted state as it
\* was, and a run calls saveStats only on the first-run, rollover and reset
\* paths.
C8_BaselineFixedWithinPeriod ==
    Ran =>
        /\ (CaseNormal => statsFile = last.prior /\ last.res.writes = 0)
        /\ (last.res.writes > 0 \/ statsFile # last.prior) =>
               \/ last.prior.kind = "absent"
               \/ CaseRollover
               \/ CaseReset

\* The second consecutive report of a month, the counters grown beyond the
\* baseline and the state still the one the run started from.
C8_Witness ==
    /\ CaseNormal
    /\ sent.all = 2
    /\ last.rx > last.prior.rx
    /\ statsFile = last.prior
    /\ last.res.notify = "delivered"

\* C9: a run in which a write of the state file fails exits on that error
\* and sends no notification.
C9_WriteFailureIsFatal ==
    (Ran /\ last.res.writeFailed) =>
        /\ last.res.err = "save"
        /\ last.res.notify = "none"

\* C10: a run that returns has called saveStats at most once and has taken
\* exactly one of the paths Skip, ResetDetected (both without notification)
\* and Report (with the notification delivered); a run that re-baselined for
\* a first run or a changed month has not taken the reset path, and no run
\* calls saveStats twice.
C10_OneWriteOneOutcome ==
    Ran =>
        /\ last.res.writes <= 1
        /\ (last.res.rollover => last.res.path # "ResetDetected")
        /\ last.res.err = "none" =>
               /\ last.res.path \in {"Skip", "ResetDetected", "Report"}
               /\ (last.res.path \in {"Skip", "ResetDetected"} => last.res.notify = "none")
               /\ (last.res.path = "Report" => last.res.notify = "delivered")

\* A run that found the month changed with a counter below the old baseline
\* and returned after one write.
C10_Witness ==
    /\ CaseRollover
    /\ last.tx < last.prior.tx
    /\ last.res.err = "none"
    /\ last.res.writes = 1
    /\ last.res.path = "Report"

\* C11: after every invocation that returns without a fatal error a state
\* file exists and its period is the current period of that invocation.
C11_PersistedPeriodIsCurrent ==
    (Ran /\ last.res.decided /\ last.res.err = "none") =>
        /\ statsFile.kind = "stats"
        /\ statsFile.month = last.monthKey

\* C12: when an invocation that found the month changed or a counter reset
\* has persisted its state, an invocation that follows it with the same
\* counters in the same month, and reads its inputs, takes the Report path
\* with usedRX = 0, usedTX = 0 and usedTotal = 0 and does not write the state.
C12_RebaselineThenZeroReport ==
    [][(/\ (CaseRollover \/ CaseReset)
        /\ statsFile = Rebaselined
        /\ last'.fn = "SendMonthlyNetStats"
        /\ last'.res.decided
        /\ last'.monthKey = last.monthKey
        /\ last'.rx = last.rx /\ last'.tx = last.tx) =>
           /\ last'.res.path = "Report"
           /\ last'.res.notify # "none"
           /\ last'.res.usedRX = 0 /\ last'.res.usedTX = 0 /\ last'.res.total = 0
           /\ last'.res.fields = NoFields
           /\ last'.res.writes = 0
           /\ statsFile' = statsFile]_vars

\* The run after the rollover run of a month: same month, the counters equal
\* to the non-zero baseline that run persisted, a report of 0 delivered.
C12_Witness ==
    /\ CaseNormal
    /\ sent.atRollover = 1 /\ sent.all = 2
    /\ last.prior = Rebaselined
    /\ last.rx > 0 /\ last.tx > 0
    /\ last.res.path = "Report" /\ last.res.total = 0
    /\ last.res.notify = "delivered"
    /\ statsFile = last.prior

\* C13: in the scheduled process, after a call of SendMonthlyNetStats by the
\* scheduler has failed the process still runs its scheduler, which will
\* call SendMonthlyNetStats at the next trigger.
C13_FailedCycleIsSkipped ==
    (Ran /\ last.via = "cron" /\ last.res.err # "none") =>
        proc = "running"

\* C14: a start of the process that gets as far as the check of the state
\* file calls SendMonthlyNetStats if and only if no state file exists; that
\* call sends no notification; with a state file the start leaves the file
\* and the notifications as they were, and the scheduler calls
\* SendMonthlyNetStats only where the month of its zone changes.
C14_StartupRunIffNoStateFile ==
    /\ (last.via = "startup" /\ ~(last.fn = "main" /\ last.res.err # "none")) =>
           /\ last.fn = "SendMonthlyNetStats" <=> last.prior.kind = "absent"
           /\ last.res.notify = "none"
           /\ last.fn = "main" => statsFile = last.prior /\ proc = "running"
    /\ (Ran /\ last.via = "cron") =>
           /\ clock > 0
           /\ schedMonth(clock, zoneShift) # schedMonth(clock - 1, zoneShift)

\* A start that found a state file whose counters have since grown, later
\* than the month the file is of: no call, the process runs.
C14_Witness ==
    /\ last.via = "startup" /\ last.fn = "main" /\ last.res.err = "none"
    /\ last.prior.kind = "stats"
    /\ last.prior.month < last.monthKey
    /\ last.rx > last.prior.rx
    /\ proc = "running"

\* C15: the month that a run called by the scheduler compares with the
\* stored one is the month of the configured timezone, the month that has
\* just begun there.
C15_PeriodInConfiguredZone ==
    (Ran /\ last.via = "cron" /\ last.res.decided) =>
        last.monthKey = schedMonth(clock, zoneShift)

\* C18: after every invocation that returns without a fatal exit the
\* persisted baseline does not exceed the counters read in it.
C18_BaselineNotAboveCounters ==
    (Ran /\ last.res.decided /\ last.res.err = "none" /\ statsFile.kind = "stats") =>
        /\ statsFile.rx <= last.rx
        /\ statsFile.tx <= last.tx

\* C19: an invocation that fails reading the configuration, loading the
\* state file or reading the counters leaves the persisted state as it was,
\* calls saveStats not at all and sends no notification; a delivery failure
\* of a run in the stored month leaves the persisted state as it was.
C19_FailedReadsChangeNothing ==
    Ran =>
        /\ last.res.err \in {"config", "load", "net"} =>
               /\ statsFile = last.prior
               /\ last.res.writes = 0
               /\ last.res.notify = "none"
               /\ ~last.res.decided
        /\ (/\ last.res.err = "send"
            /\ last.prior.kind = "stats"
            /\ last.prior.month = last.monthKey) =>
               statsFile = last.prior /\ last.res.writes = 0

\* A delivery failure in the stored month after the counters grew, the
\* state as it was.
C19_Witness ==
    /\ CaseNormal
    /\ last.res.err = "send" /\ last.res.notify = "failed"
    /\ last.rx > last.prior.rx
    /\ statsFile = last.prior

\* A failure to read the counters with a state file of an earlier month in
\* place, the state as it was.
C19_WitnessRead ==
    /\ Ran /\ last.res.err = "net"
    /\ last.prior.kind = "stats" /\ last.prior.month # last.monthKey
    /\ statsFile = last.prior

----------------------------------------------------------------------------
\* C16: formatBytes picks its unit from the ladder B, KB, MB, GB, TB, PB: for
\* every byte count >= 0 the unit is the one whose index is the number of times
\* the count can be divided by 1024 while it is >= 1024, capped at 5, in both
\* programs; 1023 is "1023.00 B", 1024 is "1.00 KB", 1024^5 is "1.00 PB" and
\* 1024^6 is "1024.00 PB".

Ladder == Units \o <<"PB">>

\* The number of times ds can be divided by 1024 while it is >= 1024.
Divisions(ds) == Len(Trim(ds)) - 1

UnitOf(ds) ==
    IF Divisions(ds) >= Len(Ladder) - 1 THEN Ladder[Len(Ladder)]
    ELSE Ladder[Divisions(ds) + 1]

Formats(ds, unit, hundredths) ==
    arg = ds => /\ out.big = [unit |-> unit, hundredths |-> hundredths]
                /\ out.float = [unit |-> unit, hundredths |-> hundredths]

C16_UnitLadder ==
    out.kind = "format" =>
        /\ out.big.unit = UnitOf(arg)
        /\ out.float.unit = UnitOf(arg)
        /\ Formats(<<Radix - 1>>, "B", 100 * (Radix - 1))
        /\ Formats(<<0, 1>>, "KB", 100)
        /\ Formats(<<0, 0, 0, 0, 0, 1>>, "PB", 100)
        /\ Formats(<<0, 0, 0, 0, 0, 0, 1>>, "PB", 100 * Radix)
        /\ Len(arg) <= 2 => /\ out.big = formatBytes(Value(arg))
                            /\ out.float = formatBytes(Value(arg))

C16_Witness ==
    /\ out.kind = "format"
    /\ arg = <<0, 0, 0, 0, 0, 0, 1>>
    /\ out.big = [unit |-> "PB", hundredths |-> 100 * Radix]
    /\ out.float = out.big

----------------------------------------------------------------------------
\* C17: for baselines and counters in 0 .. 2^63 - 1 the usedRX, usedTX and
\* total that a run computes are the exact differences and the exact sum, in
\* main of main.go (int64) and in SendMonthlyNetStats of part_000 (big.Int).

ExactUsedRX == ExactSub(Extend(arg.curRX), Extend(arg.baseRX))

ExactUsedTX == ExactSub(Extend(arg.curTX), Extend(arg.baseTX))

C17_DeltasAreExact ==
    out.kind = "deltas" =>
        /\ Extend(out.main.usedRX) = ExactUsedRX
        /\ Extend(out.main.usedTX) = ExactUsedTX
        /\ Extend(out.main.total) = ExactAdd(ExactUsedRX, ExactUsedTX)
        /\ out.part.usedRX = ExactUsedRX
        /\ out.part.usedTX = ExactUsedTX
        /\ ~out.part.reset => out.part.total = ExactAdd(ExactUsedRX, ExactUsedTX)

====
